---- MODULE Spec2Model ----
(***************************************************************************)
(* Flappy-bird game logic of src/src/main.rs (a Bevy application).         *)
(*                                                                         *)
(* One frame of the engine's Main schedule is                              *)
(*     First  (event buffers rotate)                                       *)
(*     RunFixedMainLoop  (zero or more FixedUpdate ticks, the chained      *)
(*                        systems of main.rs:86-96)                        *)
(*     Update (the unordered systems of main.rs:77-85 and main.rs:97,      *)
(*             in any order; their Commands are applied when the schedule  *)
(*             ends).                                                      *)
(*                                                                         *)
(* Lengths are integers counting tenths of a world unit, so that the       *)
(* gravity decrement 0.1 is the integer 1 and the arithmetic is exact.     *)
(***************************************************************************)
EXTENDS Integers, Sequences, FiniteSets, TLC

----------------------------------------------------------------------------
(* Bounds of the exploration *)

\* pipes spawned by spawn_pipe that are modelled (the code spawns 100)
NumPipes == 1

\* fixed ticks the engine may run within one frame
MaxTicksPerFrame == 2

\* Space is pressed only in frames in which the live player has made one of
\* these numbers of fixed ticks (or in which no player exists)
SpaceTicks == {3, 72, 105, 130}

----------------------------------------------------------------------------
(* Program constants *)

Tenth == 10                     \* model integers per world unit

BIRD_SCALE == 1
GROUND_SCALE == 2
PIPE_SCALE_X == 3
PIPE_SCALE_Y == 5

PLAYER_VX == 2 * Tenth          \* Vec2::new(2., 0.)
PLAYER_VY == 0
GRAVITY_DY == -1                \* -0.1
JUMP_VY == 5 * Tenth            \* 5.0
GROUND_Y == -268 * Tenth
BG_Y == 100 * Tenth
PIPE_X0 == 400 * Tenth
PIPE_DX == 400 * Tenth
PIPE_Y_LOW == -200 * Tenth
PIPE_Y_HIGH == 250 * Tenth

UpdateSystems ==
    {"update_velocity_on_space", "handle_game_over", "check_for_restart",
     "handle_restart_event"}

NoKeys == [space |-> FALSE, r |-> FALSE]

VARIABLES
    players,        \* sequence of the live Player entities
    texts,          \* number of live GameOverText entities
    is_game_over,   \* GameState.is_game_over
    pipes,          \* the Pipe entities' translations
    camera,         \* the GameCamera's translation
    bg,             \* the Background's translation
    goEvents,       \* Events<GameOverEvent>, as seen by handle_game_over's reader
    restartEvents,  \* Events<RestartEvent>, as seen by handle_restart_event's reader
    shouldUpdate,   \* the engine's signal that a fixed tick ran since the last rotation
    cmds,           \* Commands queued by the Update systems of this frame
    phase,          \* position in the frame: "first", "fixed", "update"
    ticksRun,       \* fixed ticks run so far in this frame
    keys,           \* keys just pressed in this frame
    ran,            \* Update systems that have run in this frame
    panicked,       \* a system has panicked: the program has aborted
    lastCheck,      \* what check_collision did in the latest fixed tick
    restarted       \* handle_restart_event ran its reset body in this frame

vars == <<players, texts, is_game_over, pipes, camera, bg, goEvents,
          restartEvents, shouldUpdate, cmds, phase, ticksRun, keys, ran,
          panicked, lastCheck, restarted>>

----------------------------------------------------------------------------
(* Entities *)

\* PlayerBundle::default with the transform given by spawn_player.
\* ticks and jumped record the entity's history: fixed ticks lived, and
\* whether a Space press has ever changed its velocity.
NewPlayer ==
    [x |-> 0, y |-> 0, vx |-> PLAYER_VX, vy |-> PLAYER_VY,
     ticks |-> 0, jumped |-> FALSE]

\* spawn_player queues one spawn command
spawn_player(c) == Append(c, [op |-> "spawn_player", idx |-> 0])

\* spawn_pipe: pipe i stands at x = 400 + 400 i, at a random one of two heights
PipeLayouts ==
    { [i \in 1..NumPipes |-> [x |-> PIPE_X0 + PIPE_DX * (i - 1), y |-> ys[i]]] :
        ys \in [1..NumPipes -> {PIPE_Y_LOW, PIPE_Y_HIGH}] }

----------------------------------------------------------------------------
(* Deferred commands *)

\* indices of the entities that queued commands despawn
Despawned(c, o) == { c[i].idx : i \in { j \in DOMAIN c : c[j].op = o } }

CountOps(c, o) == Cardinality({ j \in DOMAIN c : c[j].op = o })

Fresh(n) == [i \in 1..n |-> NewPlayer]

\* the Player entities after the queued commands are applied: the despawned
\* ones are removed, the spawned ones are new entities
ApplyPlayers(ps, c) ==
    LET gone == Despawned(c, "despawn_player")
        Keep[i \in 0..Len(ps)] ==
            IF i = 0 THEN <<>>
            ELSE IF i \in gone THEN Keep[i - 1]
                 ELSE Append(Keep[i - 1], ps[i])
    IN  Keep[Len(ps)] \o Fresh(CountOps(c, "spawn_player"))

\* the number of GameOverText entities after the queued commands are applied
ApplyTexts(t, c) ==
    t - Cardinality(Despawned(c, "despawn_text") \cap (1..t))
      + CountOps(c, "spawn_text")

----------------------------------------------------------------------------
(* Events: a double buffer read through one reader per event type *)

\* uses records the event's history: how many times a handler has acted on it
NewEvent == [age |-> 0, read |-> FALSE, uses |-> 0]

Unread(q) == { i \in DOMAIN q : ~q[i].read }

MarkRead(q) == [i \in DOMAIN q |-> [q[i] EXCEPT !.read = TRUE]]

\* a handler acts on every event its reader has not read yet
Use(q) ==
    [i \in DOMAIN q |->
        IF q[i].read THEN q[i] ELSE [q[i] EXCEPT !.uses = @ + 1]]

IsYoung(e) == e.age = 0

\* Events::update: the older buffer is dropped, the newer becomes the older
EventsUpdate(q) ==
    LET kept == SelectSeq(q, IsYoung)
    IN  [i \in DOMAIN kept |-> [kept[i] EXCEPT !.age = 1]]

----------------------------------------------------------------------------
(* The FixedUpdate systems, in the order of the chain *)

\* update_player_position: translation += velocity, for every Player
update_player_position(ps) ==
    [i \in DOMAIN ps |->
        [ps[i] EXCEPT !.x = @ + ps[i].vx, !.y = @ + ps[i].vy, !.ticks = @ + 1]]

\* a gravity step that pulls twice as hard
apply_gravity_double(ps) ==
    [i \in DOMAIN ps |-> [ps[i] EXCEPT !.vy = @ + 2 * GRAVITY_DY]]

\* apply_gravity: velocity.y += -0.1, for every entity with Gravity
apply_gravity(ps) ==
    [i \in DOMAIN ps |-> [ps[i] EXCEPT !.vy = @ + GRAVITY_DY]]

\* the pipe test of check_collision for one pipe (main.rs:272-281)
PipeHit(p, pipe) ==
    LET pipe_x == pipe.x
        pipe_y == pipe.y
        player_x == p.x
        player_y == p.y
        pipe_half_w == (32 * PIPE_SCALE_X * Tenth) \div 2
        pipe_half_h == (48 * PIPE_SCALE_Y * Tenth) \div 2
        player_half_w == - ((90 * BIRD_SCALE * Tenth) \div 2)
        player_half_h == (50 * BIRD_SCALE * Tenth) \div 2
    IN  /\ player_x + player_half_w >= pipe_x - pipe_half_w
        /\ player_x - player_half_w <= pipe_x + pipe_half_w
        /\ player_y + player_half_h >= pipe_y - pipe_half_h
        /\ player_y - player_half_h <= pipe_y + pipe_half_h

\* the ground test of check_collision (main.rs:264-267); every Ground tile
\* has the same y, so the first tile of the query decides
GroundHit(p) ==
    LET player_y == p.y - 50 * BIRD_SCALE * Tenth
        ground_y == GROUND_Y + 16 * GROUND_SCALE * Tenth
    IN  player_y <= ground_y

\* check_collision: what the system does, and where the player stood.
\*   "skipped": is_game_over was set, early return
\*   "panic":   player_query.single() found no, or more than one, Player
\*   "ground", "pipe": GameOverEvent sent and the player's despawn queued
\*   "none":    no hit
check_collision(ps, over, pp) ==
    IF over THEN [outcome |-> "skipped", x |-> 0, y |-> 0]
    ELSE IF Len(ps) # 1 THEN [outcome |-> "panic", x |-> 0, y |-> 0]
    ELSE [outcome |-> IF GroundHit(ps[1]) THEN "ground"
                      ELSE IF \E i \in DOMAIN pp : PipeHit(ps[1], pp[i])
                           THEN "pipe" ELSE "none",
          x |-> ps[1].x, y |-> ps[1].y]

IsHit(res) == res.outcome \in {"ground", "pipe"}

\* a collision system that forgets to despawn the player on a ground hit
despawn_on_pipe_hit_only(res) ==
    IF res.outcome = "pipe"
    THEN <<[op |-> "despawn_player", idx |-> 1]>> ELSE <<>>

\* the commands check_collision queues: on a hit, the despawn of the player
despawn_on_hit(res) ==
    IF IsHit(res) THEN <<[op |-> "despawn_player", idx |-> 1]>> ELSE <<>>

\* a camera that follows the player on both axes
camera_follow_player_both_axes(ps, cam) ==
    IF Len(ps) = 1 THEN [cam EXCEPT !.x = ps[1].x, !.y = ps[1].y] ELSE cam

\* camera_follow_player: with exactly one Player, the camera takes its x
camera_follow_player(ps, cam) ==
    IF Len(ps) = 1 THEN [cam EXCEPT !.x = ps[1].x] ELSE cam

\* update_bg_position: the background takes the camera's x
update_bg_position(cam, b) == [b EXCEPT !.x = cam.x]

\* One FixedUpdate tick.  The chain orders the five systems; the engine
\* applies check_collision's despawn command before the next system of the
\* chain runs.  A panic of check_collision aborts the program.
FixedTick ==
    /\ phase = "fixed"
    /\ ~panicked
    /\ ticksRun < MaxTicksPerFrame
    /\ LET moved == apply_gravity(update_player_position(players))
           res == check_collision(moved, is_game_over, pipes)
           queued == despawn_on_hit(res)
           alive == ApplyPlayers(moved, queued)
           cam == camera_follow_player(alive, camera)
       IN  /\ lastCheck' = res
           /\ IF res.outcome = "panic"
              THEN /\ panicked' = TRUE
                   /\ players' = moved
                   /\ UNCHANGED <<goEvents, camera, bg, shouldUpdate>>
              ELSE /\ panicked' = FALSE
                   /\ players' = alive
                   /\ goEvents' = IF IsHit(res)
                                  THEN Append(goEvents, NewEvent) ELSE goEvents
                   /\ camera' = cam
                   /\ bg' = update_bg_position(cam, bg)
                   /\ shouldUpdate' = TRUE
    /\ ticksRun' = ticksRun + 1
    /\ UNCHANGED <<texts, is_game_over, pipes, restartEvents, cmds, phase,
                   keys, ran, restarted>>

----------------------------------------------------------------------------
(* The Update systems *)

\* a jump that adds to the velocity instead of setting it
update_velocity_on_space_add(ps, over, k) ==
    IF ~over /\ k.space
    THEN [i \in DOMAIN ps |->
            [ps[i] EXCEPT !.vy = @ + JUMP_VY, !.jumped = TRUE]]
    ELSE ps

\* update_velocity_on_space: the Players after the system ran
update_velocity_on_space(ps, over, k) ==
    IF ~over /\ k.space
    THEN [i \in DOMAIN ps |-> [ps[i] EXCEPT !.vy = JUMP_VY, !.jumped = TRUE]]
    ELSE ps

\* the loop of handle_game_over over n unread events: the flag and the
\* command queue after it
RECURSIVE GameOverLoop(_, _, _)
GameOverLoop(n, over, c) ==
    IF n = 0 THEN [over |-> over, cmds |-> c]
    ELSE IF ~over
         THEN GameOverLoop(n - 1, TRUE,
                           Append(c, [op |-> "spawn_text", idx |-> 0]))
         ELSE GameOverLoop(n - 1, over, c)

\* handle_game_over: reads every unread GameOverEvent
handle_game_over(over, c, q) ==
    LET r == GameOverLoop(Cardinality(Unread(q)), over, c)
    IN  [over |-> r.over, cmds |-> r.cmds, q |-> MarkRead(Use(q))]

\* a restart check that forgets the is_game_over guard
check_for_restart_unguarded(over, k, q) ==
    IF k.r THEN Append(q, NewEvent) ELSE q

\* check_for_restart: the RestartEvent queue after the system ran
check_for_restart(over, k, q) ==
    IF over /\ k.r THEN Append(q, NewEvent) ELSE q

\* one despawn command per entity a query yields
DespawnAll(o, n) == [i \in 1..n |-> [op |-> o, idx |-> i]]

\* a restart handler that forgets to reset the flag
handle_restart_event_keep_flag(over, c, q, ps, t) ==
    IF Unread(q) # {}
    THEN [over |-> over,
          cmds |-> spawn_player(c \o DespawnAll("despawn_player", Len(ps))
                                  \o DespawnAll("despawn_text", t)),
          q |-> MarkRead(Use(q)), handled |-> TRUE]
    ELSE [over |-> over, cmds |-> c, q |-> q, handled |-> FALSE]

\* a restart handler that respawns once per unread event
handle_restart_event_per_event(over, c, q, ps, t) ==
    IF Unread(q) # {}
    THEN [over |-> FALSE,
          cmds |-> c \o DespawnAll("despawn_player", Len(ps))
                     \o DespawnAll("despawn_text", t)
                     \o [i \in 1..Cardinality(Unread(q)) |->
                            [op |-> "spawn_player", idx |-> 0]],
          q |-> MarkRead(Use(q)), handled |-> TRUE]
    ELSE [over |-> over, cmds |-> c, q |-> q, handled |-> FALSE]

\* a restart handler that forgets restart_events.clear()
handle_restart_event_no_clear(over, c, q, ps, t) ==
    IF Unread(q) # {}
    THEN [over |-> FALSE,
          cmds |-> spawn_player(c \o DespawnAll("despawn_player", Len(ps))
                                  \o DespawnAll("despawn_text", t)),
          q |-> Use(q), handled |-> TRUE]
    ELSE [over |-> over, cmds |-> c, q |-> q, handled |-> FALSE]

\* handle_restart_event: with an unread RestartEvent, resets the flag, queues
\* the despawn of every Player and GameOverText the queries yield and the
\* spawn of a player, and clears the reader
handle_restart_event(over, c, q, ps, t) ==
    IF Unread(q) # {}
    THEN [over |-> FALSE,
          cmds |-> spawn_player(c \o DespawnAll("despawn_player", Len(ps))
                                  \o DespawnAll("despawn_text", t)),
          q |-> MarkRead(Use(q)), handled |-> TRUE]
    ELSE [over |-> over, cmds |-> c, q |-> q, handled |-> FALSE]

----------------------------------------------------------------------------
(* The frame *)

Init ==
    /\ players = <<NewPlayer>>
    /\ texts = 0
    /\ is_game_over = FALSE
    /\ pipes \in PipeLayouts
    /\ camera = [x |-> 0, y |-> 0]
    /\ bg = [x |-> 0, y |-> BG_Y]
    /\ goEvents = <<>>
    /\ restartEvents = <<>>
    /\ shouldUpdate = FALSE
    /\ cmds = <<>>
    /\ phase = "first"
    /\ ticksRun = 0
    /\ keys = NoKeys
    /\ ran = {}
    /\ panicked = FALSE
    /\ lastCheck = [outcome |-> "idle", x |-> 0, y |-> 0]
    /\ restarted = FALSE

\* First: the event buffers rotate if a fixed tick ran since they last did
First ==
    /\ phase = "first"
    /\ ~panicked
    /\ phase' = "fixed"
    /\ goEvents' = IF shouldUpdate THEN EventsUpdate(goEvents) ELSE goEvents
    /\ restartEvents' = IF shouldUpdate THEN EventsUpdate(restartEvents)
                        ELSE restartEvents
    /\ shouldUpdate' = FALSE
    /\ restarted' = FALSE
    /\ UNCHANGED <<players, texts, is_game_over, pipes, camera, bg, cmds,
                   ticksRun, keys, ran, panicked, lastCheck>>

SpaceAllowed ==
    \/ players = <<>>
    \/ \E i \in DOMAIN players : players[i].ticks \in SpaceTicks

\* the fixed loop of the frame ends and Update starts, with the keys that
\* were just pressed in this frame
BeginUpdate(space, r) ==
    /\ phase = "fixed"
    /\ ~panicked
    /\ space => SpaceAllowed
    /\ phase' = "update"
    /\ keys' = [space |-> space, r |-> r]
    /\ ran' = {}
    /\ ticksRun' = 0
    /\ UNCHANGED <<players, texts, is_game_over, pipes, camera, bg, goEvents,
                   restartEvents, shouldUpdate, cmds, panicked, lastCheck,
                   restarted>>

Runs(sys) ==
    /\ phase = "update"
    /\ ~panicked
    /\ sys \notin ran
    /\ ran' = ran \cup {sys}

UpdateVelocityOnSpace ==
    /\ Runs("update_velocity_on_space")
    /\ players' = update_velocity_on_space(players, is_game_over, keys)
    /\ UNCHANGED <<texts, is_game_over, pipes, camera, bg, goEvents,
                   restartEvents, shouldUpdate, cmds, phase, ticksRun, keys,
                   panicked, lastCheck, restarted>>

HandleGameOver ==
    /\ Runs("handle_game_over")
    /\ LET r == handle_game_over(is_game_over, cmds, goEvents)
       IN  /\ is_game_over' = r.over
           /\ cmds' = r.cmds
           /\ goEvents' = r.q
    /\ UNCHANGED <<players, texts, pipes, camera, bg, restartEvents,
                   shouldUpdate, phase, ticksRun, keys, panicked, lastCheck,
                   restarted>>

CheckForRestart ==
    /\ Runs("check_for_restart")
    /\ restartEvents' = check_for_restart(is_game_over, keys, restartEvents)
    /\ UNCHANGED <<players, texts, is_game_over, pipes, camera, bg, goEvents,
                   shouldUpdate, cmds, phase, ticksRun, keys, panicked,
                   lastCheck, restarted>>

HandleRestartEvent ==
    /\ Runs("handle_restart_event")
    /\ LET r == handle_restart_event(is_game_over, cmds, restartEvents,
                                     players, texts)
       IN  /\ is_game_over' = r.over
           /\ cmds' = r.cmds
           /\ restartEvents' = r.q
           /\ restarted' = r.handled
    /\ UNCHANGED <<players, texts, pipes, camera, bg, goEvents, shouldUpdate,
                   phase, ticksRun, keys, panicked, lastCheck>>

\* the Update schedule ends: the queued commands are applied
ApplyDeferred ==
    /\ phase = "update"
    /\ ~panicked
    /\ ran = UpdateSystems
    /\ players' = ApplyPlayers(players, cmds)
    /\ texts' = ApplyTexts(texts, cmds)
    /\ cmds' = <<>>
    /\ keys' = NoKeys
    /\ ran' = {}
    /\ phase' = "first"
    /\ UNCHANGED <<is_game_over, pipes, camera, bg, goEvents, restartEvents,
                   shouldUpdate, ticksRun, panicked, lastCheck, restarted>>

Next ==
    \/ First
    \/ FixedTick
    \/ \E space \in BOOLEAN, r \in BOOLEAN : BeginUpdate(space, r)
    \/ UpdateVelocityOnSpace
    \/ HandleGameOver
    \/ CheckForRestart
    \/ HandleRestartEvent
    \/ ApplyDeferred

Spec == Init /\ [][Next]_vars

----------------------------------------------------------------------------
(* Properties *)

Abs(a) == IF a < 0 THEN -a ELSE a

\* check_collision ran its tests in the latest fixed tick
Tested == lastCheck.outcome \in {"none", "ground", "pipe"}

\* C1, as stated: a player whose velocity no Space press has changed stands,
\* after n fixed ticks, at y = initial_y - 0.1 n (n + 1) / 2.
C1_ClosedFormAsStated ==
    \A i \in DOMAIN players :
        ~players[i].jumped =>
            2 * (players[i].y - NewPlayer.y)
                = GRAVITY_DY * players[i].ticks * (players[i].ticks + 1)

\* C1, amended: a player whose velocity no Space press has changed stands,
\* after n fixed ticks, at y = initial_y - 0.1 n (n - 1) / 2 and falls at
\* velocity.y = -0.1 n: the position moves by the velocity before gravity
\* changes the velocity, so the first tick does not move the player.
C1_ClosedForm ==
    \A i \in DOMAIN players :
        ~players[i].jumped =>
            /\ 2 * (players[i].y - NewPlayer.y)
                 = GRAVITY_DY * players[i].ticks * (players[i].ticks - 1)
            /\ players[i].vy = NewPlayer.vy + GRAVITY_DY * players[i].ticks

\* the last tick before the ground is reached without a jump
C1_Witness ==
    \E i \in DOMAIN players :
        /\ ~players[i].jumped
        /\ players[i].ticks = 61
        /\ players[i].y = -1830

\* the boxes of C2: the player's is 90 wide and 50 high, a pipe's is 96 wide
\* and 240 high, each centred on the entity's position
OverlapX(x, pipe) == Abs(x - pipe.x) <= (45 + 48) * Tenth
OverlapY(y, pipe) == Abs(y - pipe.y) <= (25 + 120) * Tenth
BoxOverlap(x, y, pipe) == OverlapX(x, pipe) /\ OverlapY(y, pipe)

\* C2: in a fixed tick that runs while is_game_over is false, a pipe hit is
\* reported if and only if the player's box overlaps the box of some pipe
\* (a ground hit reported for an overlapping player counts as reported).
C2_PipeHitIffOverlap ==
    Tested =>
        LET ov == \E i \in DOMAIN pipes :
                      BoxOverlap(lastCheck.x, lastCheck.y, pipes[i])
        IN  /\ lastCheck.outcome = "pipe" => ov
            /\ ov => IsHit(lastCheck)

\* an edge of the player's box lies exactly on the facing edge of the pipe's
EdgeContact(x, y, pipe) ==
    \/ Abs(x - pipe.x) = (45 + 48) * Tenth /\ OverlapY(y, pipe)
    \/ Abs(y - pipe.y) = (25 + 120) * Tenth /\ OverlapX(x, pipe)

\* C3: a fixed tick that leaves the player's bottom edge (y - 50) exactly on
\* the ground's top edge (-236), or an edge of the player's box exactly on
\* the facing edge of a pipe's box, reports a collision.
C3_EdgeContactCollides ==
    Tested =>
        /\ lastCheck.y - 50 * Tenth = -236 * Tenth => IsHit(lastCheck)
        /\ (\E i \in DOMAIN pipes :
                EdgeContact(lastCheck.x, lastCheck.y, pipes[i]))
              => IsHit(lastCheck)

\* C4: at most one GameOverText entity exists in every reachable state.
C4_AtMostOneText == texts <= 1

\* C5: at the end of every frame, after the deferred commands are applied, a
\* GameOverText entity exists if and only if is_game_over is true.
C5_TextIffGameOver ==
    phase = "first" => ((texts > 0) <=> is_game_over)

\* C6: no system aborts the program: every entity lookup succeeds or makes
\* its system return.
C6_NoPanic == ~panicked

\* C7: after handle_restart_event handled a RestartEvent and the commands of
\* the frame are applied, is_game_over is false and exactly one Player
\* exists, at (0, 0) with velocity (2, 0).
C7_AfterRestart ==
    (phase = "first" /\ restarted) =>
        /\ ~is_game_over
        /\ Len(players) = 1
        /\ players[1].x = 0 /\ players[1].y = 0
        /\ players[1].vx = 2 * Tenth /\ players[1].vy = 0

\* a restart handled in the frame of the collision, its commands applied
C7_Witness ==
    /\ phase = "first"
    /\ restarted
    /\ IsHit(lastCheck)
    /\ players = <<NewPlayer>>

\* C8: at most one live Player entity exists in every reachable state.
C8_AtMostOnePlayer == Len(players) <= 1

\* one restart that consumed two RestartEvents has respawned the player
C8_Witness ==
    /\ phase = "first"
    /\ restarted
    /\ Len(restartEvents) >= 2
    /\ Len(players) = 1

\* the step in which the Update system sys runs
RunsNow(sys) == phase = "update" /\ sys \notin ran /\ sys \in ran'

\* C9: when update_velocity_on_space runs with Space just pressed,
\* is_game_over false and a player alive, the player's velocity.y becomes
\* 5.0 whatever it was, and velocity.x and the position stay as they were.
C9_JumpSetsVelocity ==
    [][ (/\ RunsNow("update_velocity_on_space")
         /\ keys.space
         /\ ~is_game_over
         /\ players # <<>>)
        => /\ Len(players') = Len(players)
           /\ \A i \in DOMAIN players :
                /\ players'[i].vy = 5 * Tenth
                /\ players'[i].vx = players[i].vx
                /\ players'[i].x = players[i].x
                /\ players'[i].y = players[i].y ]_vars

\* a falling player has just jumped
C9_Witness ==
    /\ phase = "update"
    /\ "update_velocity_on_space" \in ran
    /\ keys.space
    /\ ~is_game_over
    /\ \E i \in DOMAIN players :
          /\ players[i].vy = 5 * Tenth
          /\ players[i].ticks = 72
          /\ players[i].jumped

\* C10: when check_collision detected a hit in a fixed tick, is_game_over is
\* true when the next fixed tick runs, and is_game_over changes from true to
\* false only in handle_restart_event.
C10_FlagSetByCollision ==
    [][ /\ (phase = "fixed" /\ ticksRun' = ticksRun + 1 /\ IsHit(lastCheck))
            => is_game_over
        /\ (is_game_over /\ ~is_game_over')
            => RunsNow("handle_restart_event") ]_vars

\* every event in the queue has been acted on exactly once
AllUsedOnce(q) == \A i \in DOMAIN q : q[i].uses = 1

C12_RestartOnlyFromGameOver ==
    [][ /\ (RunsNow("check_for_restart") /\ keys.r /\ ~is_game_over) =>
              /\ restartEvents' = restartEvents
              /\ is_game_over' = is_game_over
              /\ players' = players
              /\ texts' = texts
              /\ cmds' = cmds
        /\ (RunsNow("handle_restart_event") /\ restarted') => is_game_over
      ]_vars

\* R was pressed while a player is alive and the game is not over, and
\* check_for_restart has run first among the systems that touch the flag
C12_Witness ==
    /\ phase = "update"
    /\ keys.r
    /\ ~is_game_over
    /\ "check_for_restart" \in ran
    /\ "handle_game_over" \notin ran
    /\ "handle_restart_event" \notin ran
    /\ Len(players) = 1
    /\ players[1].ticks > 0
    /\ Unread(restartEvents) = {}

\* the step is a fixed tick
TickNow == phase = "fixed" /\ ticksRun' = ticksRun + 1

\* C13: whenever is_game_over is true at the end of a frame no Player entity
\* exists; a fixed tick that runs while is_game_over is true moves no player
\* and sends no GameOverEvent; and is_game_over turns false only when
\* handle_restart_event handles a RestartEvent.
C13_NoPlayerWhileGameOver ==
    [][ /\ (phase' = "first" /\ is_game_over') => players' = <<>>
        /\ (TickNow /\ is_game_over) =>
              /\ players = <<>>
              /\ players' = <<>>
              /\ goEvents' = goEvents
              /\ lastCheck'.outcome = "skipped"
              /\ is_game_over'
        /\ (is_game_over /\ ~is_game_over') =>
              /\ RunsNow("handle_restart_event")
              /\ Unread(restartEvents) # {} ]_vars

\* a fixed tick has run while the game was over
C13_Witness ==
    /\ phase = "fixed"
    /\ ticksRun > 0
    /\ is_game_over
    /\ lastCheck.outcome = "skipped"
    /\ players = <<>>
    /\ texts = 1

----------------------------------------------------------------------------
(* Progress *)

\* The engine keeps running frames: every step of a frame that can be taken
\* is taken, and fixed ticks keep being run.
FairSpec ==
    /\ Spec
    /\ WF_vars(First)
    /\ SF_vars(FixedTick)
    /\ WF_vars(\E space \in BOOLEAN, r \in BOOLEAN : BeginUpdate(space, r))
    /\ WF_vars(UpdateVelocityOnSpace)
    /\ WF_vars(HandleGameOver)
    /\ WF_vars(CheckForRestart)
    /\ WF_vars(HandleRestartEvent)
    /\ WF_vars(ApplyDeferred)

\* a player is alive and no Space press has changed its velocity
FallingFree == Len(players) = 1 /\ ~players[1].jumped

\* a Space press has changed the velocity of a live player
SomeJumped == \E i \in DOMAIN players : players[i].jumped

\* C14: a (re)spawned player for which Space is never pressed leads to
\* is_game_over = true: it reaches the ground and the GameOverEvent is handled.
C14_EventuallyGameOver == FallingFree ~> (is_game_over \/ SomeJumped)


----------------------------------------------------------------------------
(* Camera *)

\* C15: at the end of every fixed tick in which a Player still exists the
\* camera's x equals the player's x and the background's x equals the
\* camera's x; a tick that ends with no Player leaves the camera's x
\* unchanged; and no step changes the camera's y.
C15_CameraFollowsX ==
    [][ /\ camera'.y = camera.y
        /\ (TickNow /\ players' # <<>>) =>
              /\ camera'.x = players'[1].x
              /\ bg'.x = camera'.x
        /\ (TickNow /\ players' = <<>>) => camera'.x = camera.x ]_vars

\* a fixed tick has ended with the player below the camera's height
C15_Witness ==
    /\ phase = "fixed"
    /\ ticksRun > 0
    /\ Len(players) = 1
    /\ players[1].y < 0
    /\ camera.x = players[1].x
    /\ camera.x > 0
    /\ bg.x = camera.x
    /\ camera.y = 0

====
